---------------------------- MODULE Spec2Model ----------------------------
(***************************************************************************)
(* Scoring and aggregation engine of VibeBench-Mini                        *)
(* (runner/vibebench_runner.py and runner/vibebench_runner_v1.py).         *)
(*                                                                         *)
(* Numbers.  Every score the runner stores has passed through              *)
(* round(x, 3), so a stored score is a whole number of thousandths: the    *)
(* model keeps 0.333 as 333 and 1.0 as 1000 (Scale).  A value that has not *)
(* been rounded yet is kept as an exact fraction <<num, den>>.  Python's   *)
(* None is the integer None (-1), which no count and no score can take.    *)
(*                                                                         *)
(* Seven specifications share the module:                                  *)
(*   SpecNorm   one call of one checker adapter / normalisation formula;   *)
(*   SpecEval   one call of evaluate_task, one step per adapter call;      *)
(*   Spec       discover_tasks over the content of a tasks root;           *)
(*   SpecRun    main: discovery, one evaluate_task per task, the summary;  *)
(*   SpecTwice  evaluate_task called twice on one task directory;          *)
(*   SpecAgents scripts/run_agents.py: main over the configured agents;    *)
(*   SpecOpenAI scripts/agents/openai_agent.py: one invocation of main.    *)
(***************************************************************************)
EXTENDS Integers, Sequences, FiniteSets, TLC

----------------------------------------------------------------------------
(* Bounds of the model *)

\* largest value of one count attribute of a <testsuite> element
MaxTests == 2
MaxFailures == 1
MaxErrors == 1
\* most <testsuite> elements in one report
MaxSuites == 2
\* most source files handed to radon_complexity_score
MaxFiles == 3
\* largest cyclomatic complexity of one block
MaxCC == 20
\* largest number of flake8 / bandit findings
MaxIssues == 30
\* most dependencies in one pip-audit report, most vulnerabilities of one
MaxDeps == 2
MaxVulns == 6
\* largest count on one line of `mutmut results`
MaxMut == 2
\* most entries in the tasks root
MaxEntries == 3
\* SpecEval draws tool outputs whose counts are multiples of EvalStep
EvalStep == 10
\* most entries of the tasks root in SpecRun
MaxRunEntries == 2
\* largest weight of a metric in a metrics configuration
MaxWeight == 2
\* run_agents: agents in the configuration, task directories under TASKS_SRC
MaxAgents == 2
MaxAgentTasks == 2
\* openai_agent: tokens one request reports per direction, the token budget
MaxTokens == 2
MaxBudget == 4

----------------------------------------------------------------------------
(* Program constants *)

\* round(x, 3): three decimals, i.e. thousandths
Scale == 1000
\* Python None
None == -1
\* a count attribute whose text int() rejects
NotInt == -2
\* complexity: avg <= 5 -> 1.0 ; avg >= 15 -> 0.0
CcLow == 5
CcHigh == 15
\* lint / security: 20 findings or more score 0
IssueCap == 20
\* dependencies: 10 vulnerabilities or more score 0
VulnCap == 10
\* a string that comes from a task.yaml (it is no directory's name)
ManifestText == 0
\* the empty string in a row read from results.csv
EmptyStr == -3

----------------------------------------------------------------------------
(* Arithmetic helpers *)

Min(a, b) == IF a <= b THEN a ELSE b

Max(a, b) == IF a >= b THEN a ELSE b

RECURSIVE SumSeq(_)
SumSeq(s) == IF s = <<>> THEN 0 ELSE Head(s) + SumSeq(Tail(s))

(***************************************************************************)
(* round(num/den, 3) in thousandths, for num >= 0 and den > 0.  Python     *)
(* rounds the double it is given correctly, so away from a tie the result  *)
(* is the nearest thousandth.  On a tie (1000*num/den = k + 1/2) the       *)
(* result depends on the double: when the quotient is a single correctly   *)
(* rounded division of two integers (exact) and the value j/16 is          *)
(* representable, the double is the tie itself and Python rounds half to   *)
(* even; otherwise the double lies a rounding error above or below the     *)
(* tie and either neighbour can come out (round((1.0+0.333)/2, 3) = 0.666  *)
(* but round((1.0+0.5+0.333+0.333)/4, 3) = 0.541).  The operator returns   *)
(* the set of possible results.                                            *)
(***************************************************************************)
round3(num, den, exact) ==
    LET q == (Scale * num) \div den
        r == (Scale * num) % den
    IN  IF 2 * r < den THEN {q}
        ELSE IF 2 * r > den THEN {q + 1}
        ELSE IF exact /\ (16 * num) % den = 0
             THEN {IF q % 2 = 0 THEN q ELSE q + 1}
             ELSE {q, q + 1}

----------------------------------------------------------------------------
(* junit_results and the correctness sub-score *)

\* one <testsuite> element: each attribute is a count or text that int()
\* rejects (an absent attribute reads as the default 0)
CountAttr(max) == (0..max) \cup {NotInt}

TestSuites == [tests : CountAttr(MaxTests), failures : CountAttr(MaxFailures),
               errors : CountAttr(MaxErrors)]

SeqsUpTo(S, n) == UNION {[1..k -> S] : k \in 0..n}

\* a report file: ET.parse fails (file missing, not well-formed), or the
\* sequence of its <testsuite> elements
NoReport == [parsable |-> FALSE, suites |-> <<>>]

ParsedReport(suites) == [parsable |-> TRUE, suites |-> suites]

\* the loop body of junit_results; an int() that raises leaves the loop with
\* the counters as they are at that statement
RECURSIVE junit_loop(_, _)
junit_loop(suites, acc) ==
    IF suites = <<>> THEN acc
    ELSE LET ts == Head(suites)
             a1 == [acc EXCEPT !.total = @ + ts.tests]
             a2 == [a1 EXCEPT !.failed = @ + ts.failures]
             a3 == [a2 EXCEPT !.errors = @ + ts.errors]
             a4 == [a3 EXCEPT !.passed = Max(0, a3.total - a3.failed - a3.errors)]
         IN  IF ts.tests = NotInt THEN acc
             ELSE IF ts.failures = NotInt THEN a1
             ELSE IF ts.errors = NotInt THEN a2
             ELSE junit_loop(Tail(suites), a4)

junit_results(report) ==
    LET zero == [total |-> 0, passed |-> 0, failed |-> 0, errors |-> 0]
    IN  IF report.parsable THEN junit_loop(report.suites, zero) ELSE zero

\* a slip: the share of the tests that did not pass
correctness_failed_share(jt) ==
    IF jt.total # 0 THEN round3(jt.total - jt.passed, jt.total, TRUE) ELSE {0}

\* a slip: a report without tests leaves correctness unavailable
correctness_none_when_empty(jt) ==
    IF jt.total # 0 THEN round3(jt.passed, jt.total, TRUE) ELSE {None}

\* res["correctness"] = round(passed/total, 3) if total else 0.0
correctness(jt) ==
    IF jt.total # 0 THEN round3(jt.passed, jt.total, TRUE) ELSE {0}

----------------------------------------------------------------------------
(* Checker adapters.  An adapter returns the pair (raw_value,               *)
(* normalized_score) as [raw, score], with exc = TRUE when the call does    *)
(* not return because an exception leaves it.                               *)

Unavailable == [exc |-> FALSE, raw |-> None, score |-> None]

Raised == [exc |-> TRUE, raw |-> None, score |-> None]

Returned(raw, score) == [exc |-> FALSE, raw |-> raw, score |-> score]

(***************************************************************************)
(* radon_complexity_score.  A source file is unreadable / unparsable       *)
(* (cc_visit or read_text raises, the file is skipped) or yields the       *)
(* complexities of its blocks.  vals is the concatenation over the files,  *)
(* so a file with several blocks contributes as several one-block files    *)
(* do: the model gives a file at most one block and varies the number of   *)
(* files.                                                                  *)
(***************************************************************************)
SourceFiles == {[ok |-> FALSE, blocks |-> <<>>]}
               \cup {[ok |-> TRUE, blocks |-> b] : b \in SeqsUpTo(0..MaxCC, 1)}

RECURSIVE cc_vals(_)
cc_vals(py_files) ==
    IF py_files = <<>> THEN <<>>
    ELSE (IF Head(py_files).ok THEN Head(py_files).blocks ELSE <<>>)
         \o cc_vals(Tail(py_files))

\* a slip: the slope taken over the upper threshold instead of the span
complexity_norm_steep(sum, n) ==
    IF sum <= CcLow * n THEN <<1, 1>>
    ELSE IF sum >= CcHigh * n THEN <<0, 1>>
    ELSE <<CcHigh * n - (sum - CcLow * n), CcHigh * n>>

\* line 46, before rounding: the score as an exact fraction of avg = sum/n
complexity_norm(sum, n) ==
    IF sum <= CcLow * n THEN <<1, 1>>
    ELSE IF sum >= CcHigh * n THEN <<0, 1>>
    ELSE <<10 * n - (sum - CcLow * n), 10 * n>>

radon_complexity_score(cc_visit, py_files) ==
    LET vals == cc_vals(py_files)
        sum == SumSeq(vals)
        n == Len(vals)
        sc == complexity_norm(sum, n)
    IN  IF ~cc_visit \/ py_files = <<>> THEN {Unavailable}
        ELSE IF vals = <<>> THEN {Unavailable}
        ELSE {Returned(a, s) : a \in round3(sum, n, TRUE),
                               s \in round3(sc[1], sc[2], FALSE)}

\* a slip: the share of the cap that is used, not the share that is left
count_norm_inverted(n, cap) == <<Min(n, cap), cap>>

\* a slip: the clamps left out
count_norm_unclamped(n, cap) == <<cap - n, cap>>

\* max(0.0, 1 - min(n, cap)/cap), before rounding
count_norm(n, cap) == <<Max(0, cap - Min(n, cap)), cap>>

\* flake8_api is None when the import failed; otherwise the style guide
\* reports total_errors = n
flake8_issues(flake8_api, n) ==
    IF ~flake8_api THEN {Unavailable}
    ELSE {Returned(n, s) : s \in round3(count_norm(n, IssueCap)[1], IssueCap, FALSE)}

(***************************************************************************)
(* run(cmd): subprocess.run raises FileNotFoundError when the binary is    *)
(* not on PATH ("missing"); otherwise it returns the tool's stdout, which  *)
(* is either a report of the expected shape or text the adapter's parsing  *)
(* rejects ("garbage").                                                    *)
(***************************************************************************)
run(proc) == IF proc.kind = "missing" THEN "raise" ELSE proc.kind

BanditRuns == {[kind |-> "missing", n |-> 0], [kind |-> "garbage", n |-> 0]}
              \cup {[kind |-> "report", n |-> k] : k \in 0..MaxIssues}

\* a slip: the security score on the scale of the dependency score
bandit_issues_cap10(proc) ==
    LET n == IF run(proc) = "report" THEN proc.n ELSE None
    IN  IF run(proc) = "raise" THEN {Raised}
        ELSE IF n = None THEN {Unavailable}
        ELSE {Returned(n, s) : s \in round3(count_norm(n, VulnCap)[1], VulnCap, FALSE)}

bandit_issues(proc) ==
    LET n == IF run(proc) = "report" THEN proc.n ELSE None
    IN  IF run(proc) = "raise" THEN {Raised}
        ELSE IF n = None THEN {Unavailable}
        ELSE {Returned(n, s) : s \in round3(count_norm(n, IssueCap)[1], IssueCap, FALSE)}

\* a pip-audit report lists, per dependency, its vulnerabilities
PipAuditRuns == {[kind |-> "missing", vulns |-> <<>>], [kind |-> "garbage", vulns |-> <<>>]}
                \cup {[kind |-> "report", vulns |-> v] : v \in SeqsUpTo(0..MaxVulns, MaxDeps)}

\* a slip: the dependency score on the scale of the lint score
pip_audit_cap20(req_exists, proc) ==
    LET n == IF run(proc) = "report" THEN SumSeq(proc.vulns) ELSE None
    IN  IF ~req_exists THEN {Unavailable}
        ELSE IF run(proc) = "raise" THEN {Raised}
        ELSE IF n = None THEN {Unavailable}
        ELSE {Returned(n, s) : s \in round3(count_norm(n, IssueCap)[1], IssueCap, FALSE)}

\* a slip: the tool is run before requirements.txt is looked for
pip_audit_tool_first(req_exists, proc) ==
    LET n == IF run(proc) = "report" THEN SumSeq(proc.vulns) ELSE None
    IN  IF run(proc) = "raise" THEN {Raised}
        ELSE IF ~req_exists THEN {Unavailable}
        ELSE IF n = None THEN {Unavailable}
        ELSE {Returned(n, s) : s \in round3(count_norm(n, VulnCap)[1], VulnCap, FALSE)}

pip_audit(req_exists, proc) ==
    LET n == IF run(proc) = "report" THEN SumSeq(proc.vulns) ELSE None
    IN  IF ~req_exists THEN {Unavailable}
        ELSE IF run(proc) = "raise" THEN {Raised}
        ELSE IF n = None THEN {Unavailable}
        ELSE {Returned(n, s) : s \in round3(count_norm(n, VulnCap)[1], VulnCap, FALSE)}

(***************************************************************************)
(* mutation_score (v1 runner) returns (killed, total, score).  which is    *)
(* shutil.which("mutmut") found the tool; results is the outcome of        *)
(* `mutmut results`: its exit code and the count each "Name (k)" line      *)
(* carries (0 when the line is absent).                                    *)
(***************************************************************************)
MutmutResults == [code : {0, 1}, survived : 0..MaxMut, killed : 0..MaxMut,
                  timeout : 0..MaxMut, suspicious : 0..MaxMut]

mutation_score(which, results) ==
    LET total == results.survived + results.killed + results.timeout + results.suspicious
    IN  IF ~which THEN {[killed |-> None, total |-> None, score |-> None]}
        ELSE IF results.code # 0 THEN {[killed |-> None, total |-> None, score |-> None]}
        ELSE IF total = 0 THEN {[killed |-> 0, total |-> 0, score |-> None]}
        ELSE {[killed |-> results.killed, total |-> total, score |-> s] :
                 s \in round3(results.killed, total, TRUE)}

(***************************************************************************)
(* weighted_aggregate (v1 runner).  row maps a metric to its value (None   *)
(* when the key is absent, EmptyStr, or a score), weights maps a metric to *)
(* its weight.  The result num/den is not rounded; it is kept as the       *)
(* fraction <<num, den>>, num in thousandths, and 0.0 as <<0, 1>>.         *)
(***************************************************************************)
WeightedMetrics == <<"correctness", "lint_score", "dep_score">>

\* a slip: under "zero" the weight of a missing metric is not counted
RECURSIVE weighted_loop_zero_uncounted(_, _, _, _, _, _)
weighted_loop_zero_uncounted(keys, row, weights, missing, num, den) ==
    IF keys = <<>> THEN <<num, den>>
    ELSE LET k == Head(keys)
             v == row[k]
             w == weights[k]
         IN  IF v = None \/ v = EmptyStr
             THEN weighted_loop_zero_uncounted(Tail(keys), row, weights, missing,
                                               num, den)
             ELSE weighted_loop_zero_uncounted(Tail(keys), row, weights, missing,
                                               num + v * w, den + w)

\* the loop over weights.items()
RECURSIVE weighted_loop(_, _, _, _, _, _)
weighted_loop(keys, row, weights, missing, num, den) ==
    IF keys = <<>> THEN <<num, den>>
    ELSE LET k == Head(keys)
             v == row[k]
             w == weights[k]
         IN  IF v = None \/ v = EmptyStr
             THEN IF missing = "zero"
                  THEN weighted_loop(Tail(keys), row, weights, missing, num, den + w)
                  ELSE weighted_loop(Tail(keys), row, weights, missing, num, den)
             ELSE weighted_loop(Tail(keys), row, weights, missing,
                                num + v * w, den + w)

weighted_aggregate(row, weights, missing) ==
    LET nd == weighted_loop(WeightedMetrics, row, weights, missing, 0, 0)
    IN  IF nd[2] = 0 THEN <<0, 1>> ELSE nd

----------------------------------------------------------------------------
(* The aggregate of evaluate_task: the base runner and the v1 runner *)

\* a slip: an unavailable sub-score counted as 0.0
aggregate_score_penalized(subs) ==
    LET avail == SelectSeq(subs, LAMBDA x : x # None)
    IN  IF avail # <<>> THEN round3(SumSeq(avail), Scale * Len(subs), FALSE)
        ELSE {0}

\* lines 121-123: the mean of the sub-scores that are floats, rounded
aggregate_score(subs) ==
    LET avail == SelectSeq(subs, LAMBDA x : x # None)
    IN  IF avail # <<>> THEN round3(SumSeq(avail), Scale * Len(avail), FALSE)
        ELSE {0}

\* a slip: the list with the mutation score appended (v1 lines 219-221) is
\* the one averaged
v1_averaged_subscores(subs, mut_score) ==
    LET subscores == IF mut_score # None THEN Append(subs, mut_score) ELSE subs
    IN  SelectSeq(subscores, LAMBDA x : x # None)

\* v1 lines 219-224: subscores, with the mutation score appended when it is
\* a float, is built and dropped; the list averaged is subs, the five
\* sub-scores that are floats
v1_averaged(subs, mut_score) ==
    LET subscores == IF mut_score # None THEN Append(subs, mut_score) ELSE subs
    IN  SelectSeq(subs, LAMBDA x : x # None)

\* v1 line 225
aggregate_score_v1(subs, mut_score) ==
    LET avail == v1_averaged(subs, mut_score)
    IN  IF avail # <<>> THEN round3(SumSeq(avail), Scale * Len(avail), FALSE)
        ELSE {0}

----------------------------------------------------------------------------
(* State *)

VARIABLES
    call,        \* SpecNorm: the adapter call under way, with its inputs
    ret,         \* SpecNorm: what the call returned
    etask,       \* SpecEval: the task dict handed to evaluate_task
    junit_file,  \* SpecEval: content of <task>/reports/junit.xml
    res,         \* SpecEval: the result dict evaluate_task builds
    status,      \* SpecEval: per adapter, how its tool behaved in this call
    epc,         \* SpecEval: the statement evaluate_task is at
    root,        \* Spec: the tasks root on disk
    tasks,       \* Spec: the list discover_tasks returned
    dpc,         \* Spec: where the discovery is
    results,     \* SpecRun: main's list of the results evaluated so far
    out,         \* SpecRun: the dict main writes (its "aggregate" entry)
    mpc,         \* SpecRun: the statement main is at
    scorecard,   \* SpecRun: the content of scorecard.md
    tools,       \* SpecTwice: what each external tool does for the task
    reports_dir, \* SpecTwice: <task>/reports exists
    runs,        \* SpecTwice: the outcomes of the evaluations so far
    agents,      \* SpecAgents: the agents of the configuration, in order
    sources,     \* SpecAgents: the task directories under TASKS_SRC
    ws,          \* SpecAgents: per agent, its workspace copy of the tasks
    run_files,   \* SpecAgents: per agent, the files under .agent_runs/<agent>
    acalls,      \* SpecAgents: the run_agent_on_task calls made so far
    ai,          \* SpecAgents: index of the agent main's loop is at
    ti,          \* SpecAgents: index of the task the inner loop is at
    apc,         \* SpecAgents: the statement run_agents.main is at
    oenv,        \* SpecOpenAI: arguments and environment of the invocation
    ledger_file, \* SpecOpenAI: content of cost_ledger.json
    ledger,      \* SpecOpenAI: the ledger dict in memory
    issued,      \* SpecOpenAI: the model requests issued, in order
    dst,         \* SpecOpenAI: what the invocation wrote to src/solution.py
    cache_file,  \* SpecOpenAI: content of the cached solution
    opc          \* SpecOpenAI: the statement openai_agent.main is at

vars == <<call, ret, etask, junit_file, res, status, epc, root, tasks, dpc,
          results, out, mpc, scorecard, tools, reports_dir, runs,
          agents, sources, ws, run_files, acalls, ai, ti, apc,
          oenv, ledger_file, ledger, issued, dst, cache_file, opc>>

agentVars == <<agents, sources, ws, run_files, acalls, ai, ti, apc>>

openaiVars == <<oenv, ledger_file, ledger, issued, dst, cache_file, opc>>

discVars == <<root, tasks, dpc>>

normVars == <<call, ret>>

evalVars == <<etask, junit_file, res, status, epc>>

mainVars == <<results, out, mpc, scorecard>>

twiceVars == <<tools, reports_dir, runs>>

----------------------------------------------------------------------------
(* SpecNorm: one call of one adapter *)

NoCall == [fn |-> "none"]

NoRet == [done |-> FALSE]

MetricSet == {WeightedMetrics[i] : i \in 1..Len(WeightedMetrics)}

\* what a row holds for a metric: no key, an empty cell, or a score
RowValues == {None, EmptyStr, 0, Scale \div 2, Scale}

\* a sub-score of a result: unavailable, or a score
SubValues == {None, 0, Scale \div 3, Scale}

\* the score mutation_score can return
MutationScores ==
    UNION {{m.score : m \in mutation_score(w, r)} :
              w \in BOOLEAN, r \in MutmutResults}

\* the calls the specification makes, each with its inputs
IsCall(c) ==
    \/ c = [fn |-> "correctness", report |-> NoReport]
    \/ \E s \in SeqsUpTo(TestSuites, MaxSuites) :
          c = [fn |-> "correctness", report |-> ParsedReport(s)]
    \/ \E f \in SeqsUpTo(SourceFiles, MaxFiles) :
          c = [fn |-> "radon_complexity_score", cc_visit |-> TRUE, py_files |-> f]
    \/ \E f \in SeqsUpTo(SourceFiles, 1) :
          c = [fn |-> "radon_complexity_score", cc_visit |-> FALSE, py_files |-> f]
    \/ \E a \in BOOLEAN, n \in 0..MaxIssues :
          c = [fn |-> "flake8_issues", flake8_api |-> a, n |-> n]
    \/ \E p \in BanditRuns : c = [fn |-> "bandit_issues", proc |-> p]
    \/ \E e \in BOOLEAN, p \in PipAuditRuns :
          c = [fn |-> "pip_audit", req_exists |-> e, proc |-> p]
    \/ \E w \in BOOLEAN, r \in MutmutResults :
          c = [fn |-> "mutation_score", which |-> w, results |-> r]
    \/ \E row \in [MetricSet -> RowValues], w \in [MetricSet -> -1..MaxWeight],
          m \in {"skip", "zero"} :
          c = [fn |-> "weighted_aggregate", row |-> row, weights |-> w, missing |-> m]
    \/ \E co \in SubValues \ {None}, cc, li, se, de \in SubValues,
          m \in MutationScores :
          c = [fn |-> "aggregate_score", subs |-> <<co, cc, li, se, de>>,
               mut_score |-> m]

\* junit_results(junit) followed by the correctness expression of evaluate_task
NormCorrectness ==
    /\ call.fn = "correctness" /\ ~ret.done
    /\ \E s \in correctness(junit_results(call.report)) :
          ret' = [done |-> TRUE, exc |-> FALSE,
                  jt |-> junit_results(call.report), score |-> s]
    /\ UNCHANGED <<call, evalVars, discVars, mainVars, twiceVars,
                 agentVars, openaiVars>>

NormComplexity ==
    /\ call.fn = "radon_complexity_score" /\ ~ret.done
    /\ \E r \in radon_complexity_score(call.cc_visit, call.py_files) :
          ret' = [done |-> TRUE, exc |-> r.exc, raw |-> r.raw, score |-> r.score]
    /\ UNCHANGED <<call, evalVars, discVars, mainVars, twiceVars,
                 agentVars, openaiVars>>

NormLint ==
    /\ call.fn = "flake8_issues" /\ ~ret.done
    /\ \E r \in flake8_issues(call.flake8_api, call.n) :
          ret' = [done |-> TRUE, exc |-> r.exc, raw |-> r.raw, score |-> r.score]
    /\ UNCHANGED <<call, evalVars, discVars, mainVars, twiceVars,
                 agentVars, openaiVars>>

NormSecurity ==
    /\ call.fn = "bandit_issues" /\ ~ret.done
    /\ \E r \in bandit_issues(call.proc) :
          ret' = [done |-> TRUE, exc |-> r.exc, raw |-> r.raw, score |-> r.score]
    /\ UNCHANGED <<call, evalVars, discVars, mainVars, twiceVars,
                 agentVars, openaiVars>>

NormDeps ==
    /\ call.fn = "pip_audit" /\ ~ret.done
    /\ \E r \in pip_audit(call.req_exists, call.proc) :
          ret' = [done |-> TRUE, exc |-> r.exc, raw |-> r.raw, score |-> r.score]
    /\ UNCHANGED <<call, evalVars, discVars, mainVars, twiceVars,
                 agentVars, openaiVars>>

NormMutation ==
    /\ call.fn = "mutation_score" /\ ~ret.done
    /\ \E r \in mutation_score(call.which, call.results) :
          ret' = [done |-> TRUE, exc |-> FALSE, raw |-> r.killed,
                  total |-> r.total, score |-> r.score]
    /\ UNCHANGED <<call, evalVars, discVars, mainVars, twiceVars,
                 agentVars, openaiVars>>

NormWeighted ==
    /\ call.fn = "weighted_aggregate" /\ ~ret.done
    /\ LET r == weighted_aggregate(call.row, call.weights, call.missing)
       IN  ret' = [done |-> TRUE, exc |-> FALSE, num |-> r[1], den |-> r[2]]
    /\ UNCHANGED <<call, evalVars, discVars, mainVars, twiceVars,
                 agentVars, openaiVars>>

\* the last lines of evaluate_task in the two runners, on the same five
\* sub-scores.  Python's arithmetic is a function: where the two runners
\* average the same list they get the same number.
NormAggregate ==
    /\ call.fn = "aggregate_score" /\ ~ret.done
    /\ \E a \in aggregate_score(call.subs),
          b \in aggregate_score_v1(call.subs, call.mut_score) :
          /\ v1_averaged(call.subs, call.mut_score)
                 = SelectSeq(call.subs, LAMBDA x : x # None) => a = b
          /\ ret' = [done |-> TRUE, exc |-> FALSE, base |-> a, v1 |-> b]
    /\ UNCHANGED <<call, evalVars, discVars, mainVars, twiceVars,
                 agentVars, openaiVars>>

NoTask == [id |-> 0, path |-> 0, title |-> None]

NoRes == [id |-> NoTask]

EvalIdle ==
    /\ etask = NoTask
    /\ junit_file = NoReport
    /\ res = NoRes
    /\ status = <<>>
    /\ epc = "idle"

NormIdle == call = NoCall /\ ret = NoRet

DiscIdle == root = [exists |-> FALSE, listing |-> <<>>] /\ tasks = <<>> /\ dpc = "idle"

NoOut == [mean_score |-> None, num_tasks |-> None]

\* scorecard.md has not been written
NoScorecard == [written |-> FALSE, rows |-> <<>>]

MainIdle ==
    results = <<>> /\ out = NoOut /\ mpc = "idle" /\ scorecard = NoScorecard

NoTools == [pytest |-> [kind |-> "none"]]

TwiceIdle == tools = NoTools /\ reports_dir = FALSE /\ runs = <<>>

AgentsIdle ==
    /\ agents = <<>> /\ sources = <<>> /\ ws = <<>> /\ run_files = <<>>
    /\ acalls = <<>> /\ ai = 0 /\ ti = 0 /\ apc = "idle"

NoLedger == [kind |-> "missing"]

OpenAIIdle ==
    /\ oenv = [budget_tokens |-> 0] /\ ledger_file = NoLedger /\ ledger = NoLedger
    /\ issued = <<>> /\ dst = "untouched" /\ cache_file = "absent" /\ opc = "idle"

InitNorm ==
    /\ IsCall(call) /\ ret = NoRet
    /\ EvalIdle /\ DiscIdle /\ MainIdle /\ TwiceIdle /\ AgentsIdle /\ OpenAIIdle

NextNorm ==
    \/ NormCorrectness
    \/ NormComplexity
    \/ NormLint
    \/ NormSecurity
    \/ NormDeps
    \/ NormMutation
    \/ NormWeighted
    \/ NormAggregate

SpecNorm == InitNorm /\ [][NextNorm]_vars

----------------------------------------------------------------------------
(* Properties of the adapters (SpecNorm) *)

Abs(x) == IF x >= 0 THEN x ELSE 0 - x

\* s thousandths is num/den rounded to three decimals
IsRounded(s, num, den) == 2 * Abs(s * den - Scale * num) <= den

\* s thousandths is exactly num/den
IsExactly(s, num, den) == s * den = Scale * num

CorrectnessReturned == call.fn = "correctness" /\ ret.done

\* C2 as stated: the correctness sub-score lies in [0,1], is exactly
\* passed/total when total > 0 and is 0.0 when total = 0.
C2_CorrectnessExact ==
    CorrectnessReturned =>
        /\ 0 <= ret.score /\ ret.score <= Scale
        /\ ret.jt.total > 0 => IsExactly(ret.score, ret.jt.passed, ret.jt.total)
        /\ ret.jt.total = 0 => ret.score = 0

\* C2 amended: the correctness sub-score lies in [0,1], is passed/total
\* rounded to three decimals when total > 0 and is 0.0 when total = 0.
C2_CorrectnessRounded ==
    CorrectnessReturned =>
        /\ 0 <= ret.score /\ ret.score <= Scale
        /\ ret.jt.total > 0 => IsRounded(ret.score, ret.jt.passed, ret.jt.total)
        /\ ret.jt.total = 0 => ret.score = 0

\* one of three tests (in two suites) passed: the score is 0.333, not 1/3
C2_Witness ==
    /\ CorrectnessReturned
    /\ ret.jt.total = 3 /\ ret.jt.passed = 1 /\ ret.score = 333

ComplexityReturned ==
    call.fn = "radon_complexity_score" /\ ret.done /\ ret.score # None

\* sum and number of the complexities the call averaged
CallSum == SumSeq(cc_vals(call.py_files))

CallN == Len(cc_vals(call.py_files))

\* the five named points: avg = 0, 5, 10, 15, 20
ComplexityPoints ==
    /\ CallSum = 0 => ret.score = Scale
    /\ CallSum = 5 * CallN => ret.score = Scale
    /\ CallSum = 10 * CallN => 2 * ret.score = Scale
    /\ CallSum = 15 * CallN => ret.score = 0
    /\ CallSum = 20 * CallN => ret.score = 0

\* C3 as stated: the complexity score is 1.0 for avg <= 5, 0.0 for
\* avg >= 15 and exactly 1 - (avg-5)/10 in between.
C3_ComplexityExact ==
    ComplexityReturned =>
        /\ CallSum <= 5 * CallN => ret.score = Scale
        /\ CallSum >= 15 * CallN => ret.score = 0
        /\ (5 * CallN < CallSum /\ CallSum < 15 * CallN) =>
              IsExactly(ret.score, 15 * CallN - CallSum, 10 * CallN)
        /\ ComplexityPoints

\* C3 amended: the complexity score is 1.0 for avg <= 5, 0.0 for avg >= 15
\* and 1 - (avg-5)/10 rounded to three decimals in between; at avg = 0, 5,
\* 10, 15, 20 it is exactly 1.0, 1.0, 0.5, 0.0, 0.0.
C3_ComplexityRounded ==
    ComplexityReturned =>
        /\ CallSum <= 5 * CallN => ret.score = Scale
        /\ CallSum >= 15 * CallN => ret.score = 0
        /\ (5 * CallN < CallSum /\ CallSum < 15 * CallN) =>
              IsRounded(ret.score, 15 * CallN - CallSum, 10 * CallN)
        /\ ComplexityPoints

\* blocks of complexity 5, 5 and 6: avg = 5.333, the score is 0.967
C3_Witness ==
    /\ ComplexityReturned
    /\ CallN = 3 /\ CallSum = 16 /\ ret.score = 967 /\ ret.raw = 5333

\* max(0, 1 - min(n, cap)/cap) exactly, in thousandths
IsCountScore(s, n, cap) ==
    IF n >= cap THEN s = 0 ELSE IsExactly(s, cap - n, cap)

LintReturned == call.fn = "flake8_issues" /\ ret.done /\ call.flake8_api

SecurityReturned ==
    call.fn = "bandit_issues" /\ ret.done /\ call.proc.kind = "report"

\* C4: for every issue count n, flake8_issues and bandit_issues return
\* max(0, 1 - min(n,20)/20) exactly, the same formula for both.
C4_IssueScore ==
    /\ LintReturned => (ret.raw = call.n /\ IsCountScore(ret.score, call.n, 20))
    /\ SecurityReturned =>
          (~ret.exc /\ ret.raw = call.proc.n /\ IsCountScore(ret.score, call.proc.n, 20))

\* bandit reported 30 findings: the score is clamped to 0.0
C4_Witness ==
    SecurityReturned /\ call.proc.n = 30 /\ ret.raw = 30 /\ ret.score = 0

DepsReturned ==
    /\ call.fn = "pip_audit" /\ ret.done
    /\ call.req_exists /\ call.proc.kind = "report"

\* C5: for every vulnerability count n, pip_audit returns
\* max(0, 1 - min(n,10)/10) exactly.
C5_VulnScore ==
    DepsReturned =>
        /\ ~ret.exc /\ ret.raw = SumSeq(call.proc.vulns)
        /\ IsCountScore(ret.score, SumSeq(call.proc.vulns), 10)

\* two dependencies with 5 vulnerabilities between them: the score is 0.5
C5_Witness ==
    /\ DepsReturned
    /\ Len(call.proc.vulns) = 2 /\ SumSeq(call.proc.vulns) = 5 /\ ret.score = 500

FiveFormulas ==
    {"radon_complexity_score", "flake8_issues", "bandit_issues", "pip_audit"}

\* C6: every normalisation yields, for a raw value that is not None, a
\* score that is not None and lies in [0,1].
C6_ScoreInUnitInterval ==
    /\ CorrectnessReturned => (0 <= ret.score /\ ret.score <= Scale)
    /\ (call.fn \in FiveFormulas /\ ret.done /\ ~ret.exc /\ ret.raw # None) =>
          (ret.score # None /\ 0 <= ret.score /\ ret.score <= Scale)

\* the raw value is past the clamp (12 vulnerabilities), the score stays at 0.0
C6_Witness ==
    DepsReturned /\ ret.raw = 12 /\ ret.score = 0

\* C7: for every adapter result, the mutation checker's included, the score
\* is None if and only if the raw value is None.
C7_ScoreNoneIffRawNone ==
    (call.fn \in FiveFormulas \cup {"mutation_score"} /\ ret.done /\ ~ret.exc) =>
        (ret.score = None <=> ret.raw = None)

\* int() rejects a count attribute of this <testsuite> element
BadSuite(ts) == ts.tests = NotInt \/ ts.failures = NotInt \/ ts.errors = NotInt

\* the report cannot be parsed: no well-formed file, or some element with a
\* count that is no integer
Unparsable(report) ==
    \/ ~report.parsable
    \/ \E i \in 1..Len(report.suites) : BadSuite(report.suites[i])

\* C16: whenever the test report cannot be parsed (missing, not well-formed,
\* or a count attribute that is no integer in any testsuite element, also one
\* that follows elements read successfully), junit_results yields total = 0
\* and the correctness sub-score is 0.0.
C16_UnparsableReportScoresZero ==
    (CorrectnessReturned /\ Unparsable(call.report)) =>
        (ret.jt.total = 0 /\ ret.score = 0)

PipAuditReturned == call.fn = "pip_audit" /\ ret.done

\* C20: without requirements.txt pip_audit returns (None, None) and does not
\* run the tool (a tool that is not installed cannot make the call fail);
\* with requirements.txt and a report of zero vulnerabilities it returns
\* raw 0 and score 1.0; a missing requirements.txt never yields a score.
C20_NoRequirementsUnavailable ==
    PipAuditReturned =>
        /\ ~call.req_exists =>
              (~ret.exc /\ ret.raw = None /\ ret.score = None)
        /\ (call.req_exists /\ call.proc.kind = "report"
               /\ SumSeq(call.proc.vulns) = 0) =>
              (~ret.exc /\ ret.raw = 0 /\ ret.score = Scale)

\* no requirements.txt and pip-audit not installed: the call returns
\* (None, None), the tool was not run
C20_Witness ==
    /\ PipAuditReturned
    /\ ~call.req_exists /\ call.proc.kind = "missing"
    /\ ~ret.exc /\ ret.raw = None /\ ret.score = None

\* the scores radon_complexity_score can return for n blocks that sum to sum
ComplexityScores(sum, n) ==
    round3(complexity_norm(sum, n)[1], complexity_norm(sum, n)[2], FALSE)

\* the same, tabulated for every number of blocks and every sum
ComplexityTable ==
    [n \in 1..MaxFiles |-> [sum \in 0..(n * MaxCC) |-> ComplexityScores(sum, n)]]

\* C21: every normalisation is monotone, higher raw value never scoring
\* higher: for raw values a <= b of one metric (average complexity, lint
\* count, security count, vulnerability count) score(a) >= score(b), and
\* for a fixed total > 0 fewer passed tests never score higher.
C21_Monotone ==
    /\ ComplexityReturned =>
          LET cs == CallSum
              cn == CallN
          IN  \A n \in 1..MaxFiles :
                 \A sum \in 0..Min(n * MaxCC, (cs * n) \div cn) :
                    \A sc \in ComplexityTable[n][sum] : sc >= ret.score
    /\ LintReturned =>
          \A a \in 0..call.n :
             \A r \in flake8_issues(TRUE, a) : r.score >= ret.score
    /\ SecurityReturned =>
          \A a \in 0..call.proc.n :
             \A r \in bandit_issues([kind |-> "report", n |-> a]) :
                r.score >= ret.score
    /\ DepsReturned =>
          \A p \in PipAuditRuns :
             (p.kind = "report" /\ SumSeq(p.vulns) <= SumSeq(call.proc.vulns)) =>
                \A r \in pip_audit(TRUE, p) : r.score >= ret.score
    /\ (CorrectnessReturned /\ ret.jt.total > 0) =>
          \A a \in 0..ret.jt.passed :
             \A sc \in correctness([ret.jt EXCEPT !.passed = a]) :
                sc <= ret.score

\* 10 lint findings score 0.5, and 9 findings score strictly more
C21_Witness ==
    /\ LintReturned /\ call.n + call.n = IssueCap /\ ret.score + ret.score = Scale
    /\ \A r \in flake8_issues(TRUE, call.n - 1) : r.score > ret.score

WeightedReturned == call.fn = "weighted_aggregate" /\ ret.done

\* the metric has a value in the row
Present(row, k) == row[k] # None /\ row[k] # EmptyStr

\* the sum, over the metrics that satisfy Counted, of Term
SumMetrics(Counted(_), Term(_)) ==
    SumSeq([i \in 1..Len(WeightedMetrics) |->
               IF Counted(WeightedMetrics[i]) THEN Term(WeightedMetrics[i]) ELSE 0])

\* the fraction n/d equals the returned one; 0.0 when d = 0
IsQuotient(n, d) ==
    IF d = 0 THEN ret.num = 0 /\ ret.den = 1
    ELSE ret.den # 0 /\ ret.num * d = n * ret.den

\* the fraction a lies in [0,1] (a[1] in thousandths, a[2] > 0)
InUnit(a) == 0 <= a[1] /\ a[1] <= Scale * a[2]

\* C25: weighted_aggregate returns sum(w*v)/sum(w); under "skip" both sums
\* run over the metrics whose value is present, under "zero" a missing
\* metric adds 0 to the numerator and its weight to the denominator; the
\* result is 0.0 when the denominator is 0; and for weights >= 0 and values
\* in [0,1] the "zero" result is at most the "skip" result, both in [0,1].
C25_WeightedAggregate ==
    WeightedReturned =>
        LET row == call.row
            w == call.weights
            here(k) == Present(row, k)
            all(k) == TRUE
            wv(k) == w[k] * row[k]
            wt(k) == w[k]
            skip == weighted_aggregate(row, w, "skip")
            zero == weighted_aggregate(row, w, "zero")
        IN  /\ call.missing = "skip" =>
                  IsQuotient(SumMetrics(here, wv), SumMetrics(here, wt))
            /\ call.missing = "zero" =>
                  IsQuotient(SumMetrics(here, wv), SumMetrics(all, wt))
            /\ (\A k \in MetricSet : w[k] >= 0) =>
                  /\ InUnit(skip) /\ InUnit(zero)
                  /\ zero[1] * skip[2] <= skip[1] * zero[2]
                  /\ InUnit(<<ret.num, ret.den>>)

\* weights 1, 1, 2 with the dependency score missing and the other two at
\* 1.0 and 0.5: "zero" gives 1.5/4, "skip" would give 1.5/2
C25_Witness ==
    /\ WeightedReturned /\ call.missing = "zero"
    /\ call.row["correctness"] = Scale /\ call.row["lint_score"] + call.row["lint_score"] = Scale
    /\ call.row["dep_score"] = None
    /\ call.weights["correctness"] = 1 /\ call.weights["lint_score"] = 1
    /\ call.weights["dep_score"] = 2
    /\ ret.num * 8 = 3 * Scale * ret.den
    /\ weighted_aggregate(call.row, call.weights, "skip")[1] * 4
          = 3 * Scale * weighted_aggregate(call.row, call.weights, "skip")[2]

----------------------------------------------------------------------------
(* SpecEval: evaluate_task(task), one action per adapter call *)

Adapters == {"pytest", "radon", "flake8", "bandit", "pip_audit"}

\* task dicts as discover_tasks builds them for a directory named 1: without
\* manifest keys, with a title, and with id, path and title from the manifest
EvalTasks ==
    {[id |-> 1, path |-> 1, title |-> None],
     [id |-> 1, path |-> 1, title |-> ManifestText],
     [id |-> ManifestText, path |-> ManifestText, title |-> ManifestText]}

\* what pytest writes: one <testsuite> element with integer counts
PytestReports ==
    {ParsedReport(<<ts>>) :
        ts \in [tests : 0..MaxTests, failures : 0..MaxFailures, errors : 0..MaxErrors]}

\* reports/junit.xml before the call: absent, or left by an earlier evaluation
StaleReports ==
    {NoReport, ParsedReport(<<[tests |-> MaxTests, failures |-> 0, errors |-> 0]>>)}

\* pytest is not on PATH, or runs without writing the report, or writes one
PytestRuns ==
    {[kind |-> "missing", report |-> NoReport],
     [kind |-> "no_report", report |-> NoReport]}
    \cup {[kind |-> "report", report |-> r] : r \in PytestReports}

Stepped(S) == \A i \in 1..Len(S) : S[i] % EvalStep = 0

EvalSourceFiles == {f \in SourceFiles : Stepped(f.blocks)}

EvalIssueCounts == {n \in 0..MaxIssues : n % EvalStep = 0}

EvalBanditRuns == {p \in BanditRuns : p.n % EvalStep = 0}

EvalPipAuditRuns == {p \in PipAuditRuns : SumSeq(p.vulns) % EvalStep = 0}

\* task.get("title", task["id"]): a task dict without the key has title None
task_title(task) == IF task.title # None THEN task.title ELSE task.id

\* keys evaluate_task has not assigned yet read as None
EmptyRes(task) ==
    [id |-> task, title |-> None,
     tests |-> [total |-> 0, passed |-> 0, failed |-> 0, errors |-> 0],
     correctness |-> None,
     complexity_avg |-> None, complexity_score |-> None,
     lint_issues |-> None, lint_score |-> None,
     security_issues |-> None, security_score |-> None,
     dep_vulns |-> None, dep_score |-> None,
     aggregate_score |-> None]

InitEval ==
    /\ NormIdle /\ DiscIdle /\ MainIdle /\ TwiceIdle /\ AgentsIdle /\ OpenAIIdle
    /\ etask \in EvalTasks
    /\ junit_file \in StaleReports
    /\ res = EmptyRes(etask)
    /\ status = [a \in Adapters |-> "not_called"]
    /\ epc = "correctness"

\* lines 95-103: res is created, pytest is run, the report is read
EvalCorrectness ==
    /\ epc = "correctness"
    /\ \E proc \in PytestRuns :
          LET file == IF proc.kind = "report" THEN proc.report ELSE junit_file
              jt == junit_results(file)
          IN  IF run(proc) = "raise"
              THEN /\ epc' = "raised"
                   /\ res' = [res EXCEPT !.title = task_title(etask)]
                   /\ status' = [status EXCEPT !["pytest"] = "missing"]
                   /\ UNCHANGED junit_file
              ELSE /\ junit_file' = file
                   /\ \E c \in correctness(jt) :
                         res' = [res EXCEPT !.title = task_title(etask),
                                            !.tests = jt, !.correctness = c]
                   /\ status' = [status EXCEPT !["pytest"] = proc.kind]
                   /\ epc' = "complexity"
    /\ UNCHANGED <<etask, normVars, discVars, mainVars, twiceVars,
                 agentVars, openaiVars>>

\* lines 106-107
EvalComplexity ==
    /\ epc = "complexity"
    /\ \E cc_visit \in BOOLEAN, py_files \in SeqsUpTo(EvalSourceFiles, MaxFiles) :
          \E r \in radon_complexity_score(cc_visit, py_files) :
             /\ res' = [res EXCEPT !.complexity_avg = r.raw,
                                   !.complexity_score = r.score]
             /\ status' = [status EXCEPT !["radon"] =
                              IF ~cc_visit THEN "missing"
                              ELSE IF r.raw = None THEN "no_input" ELSE "report"]
    /\ epc' = "lint"
    /\ UNCHANGED <<etask, junit_file, normVars, discVars, mainVars, twiceVars,
                 agentVars, openaiVars>>

\* lines 110-111
EvalLint ==
    /\ epc = "lint"
    /\ \E flake8_api \in BOOLEAN, n \in EvalIssueCounts :
          \E r \in flake8_issues(flake8_api, n) :
             /\ res' = [res EXCEPT !.lint_issues = r.raw, !.lint_score = r.score]
             /\ status' = [status EXCEPT !["flake8"] =
                              IF flake8_api THEN "report" ELSE "missing"]
    /\ epc' = "security"
    /\ UNCHANGED <<etask, junit_file, normVars, discVars, mainVars, twiceVars,
                 agentVars, openaiVars>>

\* lines 114-115
EvalSecurity ==
    /\ epc = "security"
    /\ \E proc \in EvalBanditRuns :
          \E r \in bandit_issues(proc) :
             /\ status' = [status EXCEPT !["bandit"] = proc.kind]
             /\ IF r.exc
                THEN epc' = "raised" /\ UNCHANGED res
                ELSE /\ epc' = "deps"
                     /\ res' = [res EXCEPT !.security_issues = r.raw,
                                           !.security_score = r.score]
    /\ UNCHANGED <<etask, junit_file, normVars, discVars, mainVars, twiceVars,
                 agentVars, openaiVars>>

\* lines 118-119
EvalDeps ==
    /\ epc = "deps"
    /\ \E req_exists \in BOOLEAN, proc \in EvalPipAuditRuns :
          \E r \in pip_audit(req_exists, proc) :
             /\ status' = [status EXCEPT !["pip_audit"] =
                              IF req_exists THEN proc.kind ELSE "no_input"]
             /\ IF r.exc
                THEN epc' = "raised" /\ UNCHANGED res
                ELSE /\ epc' = "aggregate"
                     /\ res' = [res EXCEPT !.dep_vulns = r.raw, !.dep_score = r.score]
    /\ UNCHANGED <<etask, junit_file, normVars, discVars, mainVars, twiceVars,
                 agentVars, openaiVars>>

SubScores(r) ==
    <<r.correctness, r.complexity_score, r.lint_score, r.security_score, r.dep_score>>

\* lines 121-124
EvalAggregate ==
    /\ epc = "aggregate"
    /\ \E a \in aggregate_score(SubScores(res)) :
          res' = [res EXCEPT !.aggregate_score = a]
    /\ epc' = "returned"
    /\ UNCHANGED <<etask, junit_file, status, normVars, discVars, mainVars, twiceVars,
                 agentVars, openaiVars>>

NextEval ==
    \/ EvalCorrectness
    \/ EvalComplexity
    \/ EvalLint
    \/ EvalSecurity
    \/ EvalDeps
    \/ EvalAggregate

SpecEval == InitEval /\ [][NextEval]_vars

----------------------------------------------------------------------------
(* Properties of evaluate_task (SpecEval) *)

Available(subs) == SelectSeq(subs, LAMBDA x : x # None)

\* C1 as stated: aggregate_score is exactly the arithmetic mean of the
\* sub-scores that are not None, and 0.0 when there is none.
C1_AggregateExactMean ==
    epc = "returned" =>
        LET avail == Available(SubScores(res))
        IN  IF avail = <<>> THEN res.aggregate_score = 0
            ELSE res.aggregate_score * Len(avail) = SumSeq(avail)

\* C1 amended: aggregate_score is the arithmetic mean, rounded to three
\* decimals, of the sub-scores that are not None (an unavailable sub-score
\* is in neither the sum nor the count), and 0.0 when there is none.
C1_AggregateRoundedMean ==
    epc = "returned" =>
        LET avail == Available(SubScores(res))
        IN  IF avail = <<>> THEN res.aggregate_score = 0
            ELSE 2 * Abs(res.aggregate_score * Len(avail) - SumSeq(avail))
                    <= Len(avail)

\* no requirements.txt; the other four are 0.5, 0.833, 1.0 and 0.0, whose
\* mean 0.58325 is stored as 0.583
C1_Witness ==
    /\ epc = "returned"
    /\ res.dep_score = None /\ status["pip_audit"] = "no_input"
    /\ res.correctness = 500 /\ res.complexity_score = 833
    /\ res.lint_score = Scale /\ res.security_score = 0
    /\ res.aggregate_score = 583

ToolFailed(a) == status[a] \in {"missing", "garbage", "no_report"}

\* C8: an adapter whose tool cannot be invoked, or whose output cannot be
\* parsed, returns (None, None), and no exception reaches evaluate_task.
C8_AdaptersNeverRaise ==
    /\ epc # "raised"
    /\ ToolFailed("radon") =>
          (res.complexity_avg = None /\ res.complexity_score = None)
    /\ ToolFailed("flake8") => (res.lint_issues = None /\ res.lint_score = None)
    /\ ToolFailed("bandit") =>
          (res.security_issues = None /\ res.security_score = None)
    /\ ToolFailed("pip_audit") => (res.dep_vulns = None /\ res.dep_score = None)

\* C9: every call of evaluate_task invokes all five adapters and returns a
\* result, whichever adapters fail.
C9_AllAdaptersInvoked ==
    epc \in {"returned", "raised"} =>
        /\ epc = "returned"
        /\ \A a \in Adapters : status[a] # "not_called"
        /\ res.aggregate_score # None

\* C13: the result evaluate_task returns carries the task's id (the
\* directory-name string, not the task dict) in its id field, the manifest
\* title or else the id in its title field, and the aggregate score next to
\* the checkers' raw values and scores.
C13_ResultCarriesId ==
    epc = "returned" =>
        /\ res.id \notin EvalTasks /\ res.id = etask.id
        /\ res.title = task_title(etask)
        /\ res.correctness # None /\ res.aggregate_score # None

CorrectnessAssigned ==
    epc \in {"complexity", "lint", "security", "deps", "aggregate", "returned"}

OthersUnavailable ==
    /\ res.complexity_score = None /\ res.lint_score = None
    /\ res.security_score = None /\ res.dep_score = None

\* C17: the correctness sub-score is never None, also for a report with
\* total = 0, so it is always among the averaged sub-scores; when the other
\* four are unavailable the aggregate equals the correctness sub-score, and
\* with passed = 0, total = 0 it is 0.0.
C17_CorrectnessAlwaysAveraged ==
    /\ CorrectnessAssigned =>
          (res.correctness # None /\ (res.tests.total = 0 => res.correctness = 0))
    /\ epc = "returned" =>
          /\ Len(Available(SubScores(res))) >= 1
          /\ Head(Available(SubScores(res))) = res.correctness
          /\ OthersUnavailable => res.aggregate_score = res.correctness
          /\ (OthersUnavailable /\ res.tests.total = 0) => res.aggregate_score = 0

\* pytest wrote no report and there was none: total = 0, and with radon and
\* flake8 not importable, bandit's output unreadable and no requirements.txt
\* the aggregate is the mean of the single value 0.0
C17_Witness ==
    /\ epc = "returned"
    /\ status["pytest"] = "no_report" /\ res.tests.total = 0 /\ res.tests.passed = 0
    /\ res.correctness = 0 /\ OthersUnavailable
    /\ status["pip_audit"] = "no_input"
    /\ res.aggregate_score = 0

----------------------------------------------------------------------------
(* Spec: discover_tasks(root) *)

\* task.yaml of a directory: absent, not loadable, or a mapping with the
\* given keys among id, path and title (every value is ManifestText)
ManifestStates ==
    {[state |-> "absent", keys |-> {}], [state |-> "malformed", keys |-> {}]}
    \cup {[state |-> "ok", keys |-> k] : k \in {{}, {"title"}, {"id", "path", "title"}}}

\* an entry of the tasks root; names are numbered in lexicographic order
Entries ==
    {[name |-> n, is_dir |-> FALSE, manifest |-> [state |-> "absent", keys |-> {}]] :
        n \in 1..MaxEntries}
    \cup {[name |-> n, is_dir |-> TRUE, manifest |-> m] :
             n \in 1..MaxEntries, m \in ManifestStates}

\* what glob("*") yields: the entries, each name once, in the order of the
\* file system
IsListing(l) == \A i, j \in 1..Len(l) : i # j => l[i].name # l[j].name

\* a root that does not exist globs to nothing
IsRoot(r) ==
    \/ r = [exists |-> FALSE, listing |-> <<>>]
    \/ \E l \in SeqsUpTo(Entries, MaxEntries) :
          IsListing(l) /\ r = [exists |-> TRUE, listing |-> l]

\* sorted(Path(root).glob("*"))
sorted(listing) == SortSeq(listing, LAMBDA a, b : a.name < b.name)

\* meta.update(yaml.safe_load(...) or {}); a load that fails is passed over
meta_update(meta, manifest) ==
    IF manifest.state # "ok" THEN meta
    ELSE [k \in {"id", "path", "title"} |->
             IF k \in manifest.keys THEN ManifestText ELSE meta[k]]

(***************************************************************************)
(* The loop of discover_tasks.  meta and mf are assigned only under        *)
(* `if p.is_dir()`, while the manifest test and tasks.append(meta) run for *)
(* every entry: for an entry that is no directory they use the meta and mf *)
(* of the last directory before it, and raise UnboundLocalError when there *)
(* was none.                                                               *)
(***************************************************************************)
RECURSIVE discover_loop(_, _, _, _)
discover_loop(ps, meta, mf, acc) ==
    IF ps = <<>> THEN [exc |-> FALSE, tasks |-> acc]
    ELSE LET p == Head(ps)
             meta1 == IF p.is_dir
                      THEN [id |-> p.name, path |-> p.name, title |-> None]
                      ELSE meta
             mf1 == IF p.is_dir THEN [bound |-> TRUE, manifest |-> p.manifest]
                    ELSE mf
             meta2 == IF mf1.manifest.state # "absent"
                      THEN meta_update(meta1, mf1.manifest) ELSE meta1
         IN  IF ~mf1.bound THEN [exc |-> TRUE, tasks |-> <<>>]
             ELSE discover_loop(Tail(ps), meta2, mf1, Append(acc, meta2))

discover_tasks(r) ==
    discover_loop(sorted(r.listing), NoTask,
                  [bound |-> FALSE, manifest |-> [state |-> "absent", keys |-> {}]],
                  <<>>)

Init ==
    /\ NormIdle /\ EvalIdle /\ MainIdle /\ TwiceIdle /\ AgentsIdle /\ OpenAIIdle
    /\ IsRoot(root)
    /\ tasks = <<>>
    /\ dpc = "discover"

DiscoverTasks ==
    /\ dpc = "discover"
    /\ LET d == discover_tasks(root)
       IN  /\ tasks' = d.tasks
           /\ dpc' = IF d.exc THEN "raised" ELSE "discovered"
    /\ UNCHANGED <<root, normVars, evalVars, mainVars, twiceVars,
                 agentVars, openaiVars>>

Next == DiscoverTasks

Spec == Init /\ [][Next]_vars

----------------------------------------------------------------------------
(* Properties of discover_tasks (Spec) *)

\* the directories of the root in the order of their names
Directories == SelectSeq(sorted(root.listing), LAMBDA e : e.is_dir)

\* the task dict of one directory
TaskOf(e) ==
    meta_update([id |-> e.name, path |-> e.name, title |-> None], e.manifest)

\* C10: for every content of the tasks root, discover_tasks returns without
\* error exactly one task per immediate subdirectory, in the order of the
\* directory names, and none for an entry that is no directory.
C10_OneTaskPerDirectory ==
    dpc \in {"discovered", "raised"} =>
        /\ dpc = "discovered"
        /\ Len(tasks) = Len(Directories)
        /\ \A i \in 1..Len(tasks) : tasks[i] = TaskOf(Directories[i])

\* the metadata of a directory whose manifest was passed over
DefaultMeta(e) == [id |-> e.name, path |-> e.name, title |-> None]

\* C11: every subdirectory is included as a task, whether its manifest is
\* absent, well-formed or malformed; a manifest that fails to parse does not
\* stop the discovery, and the task of its directory has id = directory name
\* and title = directory name.
C11_ManifestNeverGates ==
    dpc \in {"discovered", "raised"} =>
        /\ dpc = "discovered"
        /\ \A i \in 1..Len(Directories) :
              LET e == Directories[i]
              IN  /\ \E j \in 1..Len(tasks) : tasks[j] = TaskOf(e)
                  /\ e.manifest.state = "malformed" =>
                        \E j \in 1..Len(tasks) :
                            /\ tasks[j] = DefaultMeta(e)
                            /\ tasks[j].id = e.name
                            /\ task_title(tasks[j]) = e.name

\* the names of the directories of the root
DirectoryNames == {Directories[i].name : i \in 1..Len(Directories)}

\* C12: every task discover_tasks returns has the name of its directory as
\* id and the location of that directory as path, whatever keys the manifest
\* holds, and no two tasks of one discovery have the same id.
C12_IdIsDirectoryName ==
    dpc = "discovered" =>
        /\ \A i \in 1..Len(tasks) :
              tasks[i].id \in DirectoryNames /\ tasks[i].path = tasks[i].id
        /\ \A i, j \in 1..Len(tasks) : i # j => tasks[i].id # tasks[j].id

\* junit = Path(task["path"]) / "reports" / "junit.xml"
junit_path(task) == <<task.path, "reports", "junit.xml">>

----------------------------------------------------------------------------
(* evaluate_task(task) as one step *)

\* a slip: exist_ok left out, an existing directory raises FileExistsError
mkdir_strict(parent, exists, exist_ok) ==
    IF ~parent \/ exists THEN "raise" ELSE "ok"

\* Path.mkdir(exist_ok=...) without parents=True: FileNotFoundError when the
\* parent is missing, FileExistsError when the directory exists and
\* exist_ok is false
mkdir(parent, exists, exist_ok) ==
    IF ~parent \/ (exists /\ ~exist_ok) THEN "raise" ELSE "ok"

(***************************************************************************)
(* What the environment of one task does during a call: t.tdir is whether  *)
(* task["path"] names an existing directory, t.pytest what pytest does,    *)
(* t.cc_visit and t.flake8_api whether the imports succeeded, t.py_files   *)
(* the sources, t.n the flake8 findings, t.bandit and t.pip what the two   *)
(* tools print, t.req_exists whether requirements.txt is there.  dir and   *)
(* file are <task>/reports and its junit.xml before the call.  The result  *)
(* is the set of outcomes: the call raises (exc) or returns res, and       *)
(* leaves the directory and the file as given.                             *)
(***************************************************************************)
evaluate_task(task, dir, file, t) ==
    LET res0 == [EmptyRes(task) EXCEPT !.title = task_title(task)]
        written == IF t.pytest.kind = "report" THEN t.pytest.report ELSE file
        jt == junit_results(written)
        raises(d, f) ==
            [exc |-> TRUE, res |-> NoRes, reports_dir |-> d, junit_file |-> f]
        returns(c, cx, li, se, de) ==
            {[exc |-> FALSE, reports_dir |-> TRUE, junit_file |-> written,
              res |-> [res0 EXCEPT
                         !.tests = jt, !.correctness = c,
                         !.complexity_avg = cx.raw, !.complexity_score = cx.score,
                         !.lint_issues = li.raw, !.lint_score = li.score,
                         !.security_issues = se.raw, !.security_score = se.score,
                         !.dep_vulns = de.raw, !.dep_score = de.score,
                         !.aggregate_score = a]] :
                a \in aggregate_score(<<c, cx.score, li.score, se.score, de.score>>)}
    IN  IF mkdir(t.tdir, dir, TRUE) = "raise" THEN {raises(dir, file)}
        ELSE IF run(t.pytest) = "raise" THEN {raises(TRUE, file)}
        ELSE UNION {IF se.exc \/ de.exc THEN {raises(TRUE, written)}
                    ELSE returns(c, cx, li, se, de) :
                       <<c, cx, li, se, de>> \in
                           correctness(jt)
                           \X radon_complexity_score(t.cc_visit, t.py_files)
                           \X flake8_issues(t.flake8_api, t.n)
                           \X bandit_issues(t.bandit)
                           \X pip_audit(t.req_exists, t.pip)}

----------------------------------------------------------------------------
(* SpecRun: main() -- discovery, one evaluation per task, the summary *)

\* three one-block files of complexity 5, 5 and 10: avg 6.667, score 0.833
RunSources ==
    <<[ok |-> TRUE, blocks |-> <<CcLow>>], [ok |-> TRUE, blocks |-> <<CcLow>>],
      [ok |-> TRUE, blocks |-> <<CcLow + CcLow>>]>>

\* pytest is not on PATH, or every test passes, or the one test fails
RunPytestRuns ==
    {[kind |-> "missing", report |-> NoReport],
     [kind |-> "report",
      report |-> ParsedReport(<<[tests |-> MaxTests, failures |-> 0, errors |-> 0]>>)],
     [kind |-> "report",
      report |-> ParsedReport(<<[tests |-> 1, failures |-> 1, errors |-> 0]>>)]}

\* the environments a run meets: the task directory exists or not, pytest as
\* above, radon importable or not; flake8 is not importable, bandit prints
\* no JSON and there is no requirements.txt
RunTools ==
    {[tdir |-> d, pytest |-> p, cc_visit |-> c, py_files |-> RunSources,
      flake8_api |-> FALSE, n |-> 0,
      bandit |-> [kind |-> "garbage", n |-> 0],
      req_exists |-> FALSE, pip |-> [kind |-> "garbage", vulns |-> <<>>]] :
        d \in BOOLEAN, p \in RunPytestRuns, c \in BOOLEAN}

\* sum(r["aggregate_score"] for r in results)
SumAggregates(rs) == SumSeq([i \in 1..Len(rs) |-> rs[i].aggregate_score])

\* a slip: the divisor one too large
main_mean_score_off_by_one(rs) ==
    round3(SumAggregates(rs), Scale * (Len(rs) + 1), FALSE)

\* a slip: the sum is not divided
main_mean_score_total(rs) == round3(SumAggregates(rs), Scale, FALSE)

\* round(sum(...) / max(1, len(results)), 3)
main_mean_score(rs) ==
    round3(SumAggregates(rs), Scale * Max(1, Len(rs)), FALSE)

\* the roots of a run: at most MaxRunEntries entries, listed in name order
IsRunRoot(r) ==
    /\ IsRoot(r)
    /\ Len(r.listing) <= MaxRunEntries
    /\ r.listing = sorted(r.listing)

InitRun ==
    /\ NormIdle /\ EvalIdle /\ TwiceIdle /\ AgentsIdle /\ OpenAIIdle
    /\ IsRunRoot(root)
    /\ tasks = <<>>
    /\ dpc = "discover"
    /\ results = <<>>
    /\ out = NoOut
    /\ scorecard = NoScorecard
    /\ mpc = "evaluate"

\* line 155: the next element of [evaluate_task(t) for t in tasks]; a task
\* found in the root has its directory, a path from a manifest may name none
MainEvaluate ==
    /\ dpc = "discovered" /\ mpc = "evaluate"
    /\ Len(results) < Len(tasks)
    /\ LET task == tasks[Len(results) + 1]
       IN  \E t \in RunTools, dir \in BOOLEAN, file \in StaleReports :
              /\ task.path # ManifestText => t.tdir
              /\ dir => t.tdir
              /\ file.parsable => dir
              /\ \E o \in evaluate_task(task, dir, file, t) :
                    IF o.exc
                    THEN mpc' = "raised" /\ UNCHANGED results
                    ELSE results' = Append(results, o.res) /\ UNCHANGED mpc
    /\ UNCHANGED <<out, scorecard, discVars, normVars, evalVars, twiceVars,
                 agentVars, openaiVars>>

\* a slip: the summary is taken as soon as one result is there
MainSummary_early ==
    /\ dpc = "discovered" /\ mpc = "evaluate"
    /\ Len(results) >= Min(1, Len(tasks))
    /\ \E m \in main_mean_score(results) :
          out' = [mean_score |-> m, num_tasks |-> Len(results)]
    /\ mpc' = "done"
    /\ UNCHANGED <<results, scorecard, discVars, normVars, evalVars, twiceVars,
                 agentVars, openaiVars>>

\* lines 156-162, reached when the list of line 155 is complete
MainSummary ==
    /\ dpc = "discovered" /\ mpc = "evaluate"
    /\ Len(results) = Len(tasks)
    /\ \E m \in main_mean_score(results) :
          out' = [mean_score |-> m, num_tasks |-> Len(results)]
    /\ mpc' = "done"
    /\ UNCHANGED <<results, scorecard, discVars, normVars, evalVars, twiceVars,
                 agentVars, openaiVars>>

(***************************************************************************)
(* write_scorecard.  A cell is the placeholder glyph or a number with two  *)
(* decimals, kept in hundredths.  f"{x:.2f}" rounds the double: a score    *)
(* of k thousandths with k % 10 = 5 lies on a tie that only a multiple of  *)
(* 1/8 hits exactly (half to even); elsewhere the double is off the tie    *)
(* and either neighbour can come out.                                      *)
(***************************************************************************)
format2f(x) ==
    LET q == x \div 10
        r == x % 10
    IN  IF r < 5 THEN {q}
        ELSE IF r > 5 THEN {q + 1}
        ELSE IF x % 125 = 0 THEN {IF q % 2 = 0 THEN q ELSE q + 1}
        ELSE {q, q + 1}

Glyph == [kind |-> "glyph", hundredths |-> 0]

\* a slip: `if not x`, which also takes 0.0 for missing
fmt_falsy(x) ==
    IF x = None \/ x = 0 THEN {Glyph}
    ELSE {[kind |-> "number", hundredths |-> h] : h \in format2f(x)}

\* fmt(x): "—" if x is None else f"{x:.2f}"
fmt(x) ==
    IF x = None THEN {Glyph}
    ELSE {[kind |-> "number", hundredths |-> h] : h \in format2f(x)}

\* the cells of one row after the Task cell, lines 140-142
RowScores(t) ==
    <<t.correctness, t.complexity_score, t.lint_score, t.security_score,
      t.dep_score, t.aggregate_score>>

scorecard_row(t) ==
    {[id |-> t.id, cells |-> <<c1, c2, c3, c4, c5, c6>>] :
        c1 \in fmt(RowScores(t)[1]), c2 \in fmt(RowScores(t)[2]),
        c3 \in fmt(RowScores(t)[3]), c4 \in fmt(RowScores(t)[4]),
        c5 \in fmt(RowScores(t)[5]), c6 \in fmt(RowScores(t)[6])}

\* the rows lines 138-143 append, one per element of results["tasks"]
RECURSIVE scorecard_rows(_)
scorecard_rows(ts) ==
    IF ts = <<>> THEN {<<>>}
    ELSE {<<r>> \o rest : r \in scorecard_row(Head(ts)),
                          rest \in scorecard_rows(Tail(ts))}

write_scorecard(rs) ==
    {[written |-> TRUE, rows |-> rows] : rows \in scorecard_rows(rs)}

\* line 165, after the summary
WriteScorecard ==
    /\ mpc = "done" /\ ~scorecard.written
    /\ scorecard' \in write_scorecard(results)
    /\ UNCHANGED <<results, out, mpc, discVars, normVars, evalVars, twiceVars,
                 agentVars, openaiVars>>

NextRun ==
    \/ DiscoverTasks
    \/ MainEvaluate
    \/ MainSummary
    \/ WriteScorecard

SpecRun == InitRun /\ [][NextRun]_vars

----------------------------------------------------------------------------
(* Properties of main (SpecRun) *)

\* C14 as stated: mean_score is exactly the arithmetic mean of the results'
\* aggregate scores and num_tasks their number; a run without tasks ends
\* without error with mean_score = 0.0 and num_tasks = 0.
C14_MeanScoreExact ==
    /\ (dpc = "discovered" /\ tasks = <<>>) => mpc # "raised"
    /\ mpc = "done" =>
          /\ out.num_tasks = Len(results)
          /\ Len(results) = 0 => out.mean_score = 0
          /\ Len(results) > 0 =>
                out.mean_score * Len(results) = SumAggregates(results)

\* C14 amended: mean_score is the arithmetic mean of the results' aggregate
\* scores rounded to three decimals, num_tasks their number; a run without
\* tasks ends without error with mean_score = 0.0 and num_tasks = 0.
C14_MeanScoreRounded ==
    /\ (dpc = "discovered" /\ tasks = <<>>) => mpc # "raised"
    /\ mpc = "done" =>
          /\ out.num_tasks = Len(results)
          /\ Len(results) = 0 => out.mean_score = 0
          /\ Len(results) > 0 =>
                2 * Abs(out.mean_score * Len(results) - SumAggregates(results))
                   <= Len(results)

\* two results whose aggregates sum to an odd number of thousandths: the
\* mean has a fourth decimal and is stored with three
C14_Witness ==
    /\ mpc = "done" /\ out.num_tasks = 2
    /\ results[1].aggregate_score = Scale
    /\ SumAggregates(results) % 2 = 1
    /\ out.mean_score * 2 # SumAggregates(results)

\* C15: the results are the evaluations of the discovered tasks, one each
\* and in discovery order, and the summary is computed only when every task
\* has been evaluated.
C15_ResultsFollowDiscovery ==
    /\ Len(results) <= Len(tasks)
    /\ \A i \in 1..Len(results) :
          results[i].id = tasks[i] /\ results[i].title = task_title(tasks[i])
    /\ out # NoOut =>
          /\ mpc = "done" /\ Len(results) = Len(tasks)
          /\ out.num_tasks = Len(tasks)

\* two different tasks with different results, in the order of discovery
C15_Witness ==
    /\ mpc = "done" /\ Len(tasks) = 2 /\ out.num_tasks = 2
    /\ tasks[1] # tasks[2]
    /\ results[1].id = tasks[1] /\ results[2].id = tasks[2]
    /\ results[1].aggregate_score # results[2].aggregate_score

\* C18: every result's aggregate_score is a number in [0,1], never None,
\* and so is the run's mean_score.
C18_ScoresInUnitInterval ==
    /\ \A i \in 1..Len(results) :
          /\ results[i].aggregate_score # None
          /\ 0 <= results[i].aggregate_score /\ results[i].aggregate_score <= Scale
    /\ out # NoOut => (0 <= out.mean_score /\ out.mean_score <= Scale)

\* a run over two tasks, one scoring 1.0 and one 0.0: the mean is 0.5
C18_Witness ==
    /\ mpc = "done" /\ Len(results) = 2
    /\ results[1].aggregate_score = Scale /\ results[2].aggregate_score = 0
    /\ out.mean_score + out.mean_score = Scale

----------------------------------------------------------------------------
(* SpecTwice: evaluate_task(task) called twice on one task directory *)

\* the environments of the task: pytest as in SpecEval; one source file with
\* one block; flake8 with EvalStep findings; bandit not on PATH, printing no
\* JSON, or reporting EvalStep findings; pip-audit printing no JSON or an
\* empty report
TwiceTools ==
    {[tdir |-> d, pytest |-> p, cc_visit |-> c,
      py_files |-> <<[ok |-> TRUE, blocks |-> <<EvalStep>>]>>,
      flake8_api |-> f, n |-> EvalStep, bandit |-> b, req_exists |-> q,
      pip |-> a] :
        d \in BOOLEAN, p \in PytestRuns, c \in BOOLEAN, f \in BOOLEAN,
        b \in {[kind |-> "missing", n |-> 0], [kind |-> "garbage", n |-> 0],
               [kind |-> "report", n |-> EvalStep]},
        q \in BOOLEAN,
        a \in {[kind |-> "garbage", vulns |-> <<>>], [kind |-> "report", vulns |-> <<>>]}}

InitTwice ==
    /\ NormIdle /\ DiscIdle /\ MainIdle /\ AgentsIdle /\ OpenAIIdle
    /\ etask \in EvalTasks
    /\ tools \in TwiceTools
    /\ reports_dir \in BOOLEAN
    /\ junit_file \in StaleReports
    /\ etask.path # ManifestText => tools.tdir
    /\ reports_dir => tools.tdir
    /\ junit_file.parsable => reports_dir
    /\ res = NoRes /\ status = <<>> /\ epc = "idle"
    /\ runs = <<>>

\* one outcome of a call, with the directory and the file it found
RunOf(o) ==
    [exc |-> o.exc, res |-> o.res,
     before |-> [reports_dir |-> reports_dir, junit_file |-> junit_file]]

(***************************************************************************)
(* Python's arithmetic is a function: the same operands give the same      *)
(* result in both calls.  The operands of the complexity, lint, security   *)
(* and dependency scores are the tools' outputs, which are the same; those *)
(* of the correctness score are the counts read from the report, those of  *)
(* the aggregate the sub-scores.                                           *)
(***************************************************************************)
SameArithmetic(o1, o2) ==
    (~o1.exc /\ ~o2.exc) =>
        /\ o2.res.complexity_avg = o1.res.complexity_avg
        /\ o2.res.complexity_score = o1.res.complexity_score
        /\ o2.res.lint_score = o1.res.lint_score
        /\ o2.res.security_score = o1.res.security_score
        /\ o2.res.dep_score = o1.res.dep_score
        /\ o2.res.tests = o1.res.tests => o2.res.correctness = o1.res.correctness
        /\ SubScores(o2.res) = SubScores(o1.res) =>
              o2.res.aggregate_score = o1.res.aggregate_score

EvaluateOnce ==
    /\ tools # NoTools /\ Len(runs) = 0
    /\ \E o \in evaluate_task(etask, reports_dir, junit_file, tools) :
          /\ runs' = <<RunOf(o)>>
          /\ reports_dir' = o.reports_dir
          /\ junit_file' = o.junit_file
    /\ UNCHANGED <<etask, res, status, epc, tools, normVars, discVars, mainVars,
                 agentVars, openaiVars>>

EvaluateAgain ==
    /\ tools # NoTools /\ Len(runs) = 1
    /\ \E o \in evaluate_task(etask, reports_dir, junit_file, tools) :
          /\ SameArithmetic(runs[1], o)
          /\ runs' = Append(runs, RunOf(o))
          /\ reports_dir' = o.reports_dir
          /\ junit_file' = o.junit_file
    /\ UNCHANGED <<etask, res, status, epc, tools, normVars, discVars, mainVars,
                 agentVars, openaiVars>>

NextTwice ==
    \/ EvaluateOnce
    \/ EvaluateAgain

SpecTwice == InitTwice /\ [][NextTwice]_vars

----------------------------------------------------------------------------
(* Properties of repeated evaluation (SpecTwice) *)

\* C19: a second evaluation of the unchanged task, with every tool doing
\* what it did the first time, ends as the first did (it returns if and only
\* if the first returned) with the same sub-scores and the same aggregate;
\* the reports directory and the junit.xml the first call left make no
\* difference.
C19_SecondEvaluationSame ==
    Len(runs) = 2 =>
        /\ runs[2].exc = runs[1].exc
        /\ ~runs[1].exc =>
              /\ SubScores(runs[2].res) = SubScores(runs[1].res)
              /\ runs[2].res.aggregate_score = runs[1].res.aggregate_score
              /\ runs[2].res.tests = runs[1].res.tests

\* the first call found no reports directory and left one with a junit.xml
\* in it; the second call found both and returned the same scores
C19_Witness ==
    /\ Len(runs) = 2 /\ ~runs[1].exc /\ ~runs[2].exc
    /\ ~runs[1].before.reports_dir /\ ~runs[1].before.junit_file.parsable
    /\ runs[2].before.reports_dir /\ runs[2].before.junit_file.parsable
    /\ runs[1].res.correctness = Scale /\ runs[1].res.complexity_score # None
    /\ runs[2].res.aggregate_score = runs[1].res.aggregate_score

\* C23: the scorecard has one row per result, in the order of the results,
\* and a score cell of a row shows the placeholder glyph if and only if that
\* score is None, and otherwise the score with two decimals.
C23_ScorecardRows ==
    scorecard.written =>
        /\ Len(scorecard.rows) = Len(results)
        /\ \A i \in 1..Len(scorecard.rows) :
              /\ scorecard.rows[i].id = results[i].id
              /\ \A k \in 1..Len(RowScores(results[i])) :
                    LET cell == scorecard.rows[i].cells[k]
                        x == RowScores(results[i])[k]
                    IN  /\ cell.kind = "glyph" <=> x = None
                        /\ cell.kind = "number" =>
                              2 * Abs(10 * cell.hundredths - x) <= 10

\* two rows: a task whose only score is a correctness of 0.0 shows 0.00 and
\* glyphs, a task with complexity score 0.833 shows 0.83
C23_Witness ==
    /\ scorecard.written /\ Len(results) = 2 /\ Len(scorecard.rows) = 2
    /\ results[1].correctness = 0 /\ results[1].complexity_score = None
    /\ scorecard.rows[1].cells[1] = [kind |-> "number", hundredths |-> 0]
    /\ scorecard.rows[1].cells[2] = Glyph
    /\ results[2].complexity_score = 833
    /\ scorecard.rows[2].cells[2] = [kind |-> "number", hundredths |-> 83]

\* C24: a run whose tasks root does not exist ends in an error: it writes no
\* result record and is not reported as a run of zero tasks with
\* mean_score = 0.0.
C24_MissingRootIsFatal ==
    ~root.exists =>
        /\ dpc # "discovered"
        /\ out = NoOut /\ mpc # "done" /\ ~scorecard.written

\* C27: in every evaluation of a sequence on one task, when the test run of
\* that evaluation writes no report the result has total = 0 and correctness
\* 0.0, whatever junit.xml an earlier evaluation left in the reports
\* directory.
C27_CorrectnessFromOwnReport ==
    \A i \in 1..Len(runs) :
        (~runs[i].exc /\ tools.pytest.kind = "no_report") =>
            /\ runs[i].res.tests.total = 0
            /\ runs[i].res.correctness = 0

\* C28: for every mutation score (unavailable or a score) and the same five
\* sub-scores, the aggregate of the v1 runner's evaluate_task is the
\* aggregate of the base runner's.
C28_MutationNeverAggregated ==
    (call.fn = "aggregate_score" /\ ret.done) => ret.v1 = ret.base

\* a mutation score of 0.0 next to five sub-scores of 1.0: the aggregate of
\* the v1 runner is 1.0
C28_Witness ==
    /\ call.fn = "aggregate_score" /\ ret.done
    /\ call.mut_score = 0
    /\ call.subs = <<Scale, Scale, Scale, Scale, Scale>>
    /\ ret.v1 = Scale

----------------------------------------------------------------------------
(* SpecAgents: scripts/run_agents.py, main() over the configured agents *)

\* what an agent's cmd is: the reference copier, a code generator, a command
\* that does nothing, a binary that is not on PATH, a template with a
\* placeholder run_agent_on_task does not supply
AgentKinds == {"copy_ref", "codegen", "noop", "missing", "bad_template"}

\* runcmd(args) of an agent command on one task: its exit code and what it
\* wrote to the workspace src/solution.py
AgentRuns(kind) ==
    CASE kind = "copy_ref" -> {[code |-> 0, writes |-> "reference"],
                               [code |-> 1, writes |-> "nothing"]}
      [] kind = "codegen"  -> {[code |-> 0, writes |-> "code"],
                               [code |-> 1, writes |-> "code"],
                               [code |-> 1, writes |-> "nothing"]}
      [] kind = "noop"     -> {[code |-> 0, writes |-> "nothing"]}
      [] OTHER             -> {}

\* a task directory under TASKS_SRC: it has no tests directory, or one
\* without a test_*.py, or one whose first test file is not UTF-8, or one
\* with a readable test file
TaskDirs == {[tests |-> t] : t \in {"absent", "empty", "undecodable", "ok"}}

\* run_agents.discover_tasks: the directories that have a tests directory,
\* by name (a directory's index in sources is its name)
agents_discover_tasks(srcs) ==
    SelectSeq([i \in 1..Len(srcs) |-> i], LAMBDA i : srcs[i].tests # "absent")

find_test_file(task) == IF task.tests = "empty" THEN "raise" ELSE "ok"

\* rmtree of an earlier workspace, then copytree: every task directory is
\* copied with its reference src/solution.py
prepare_workspace(srcs) == [i \in 1..Len(srcs) |-> "reference"]

\* a slip: the workspace solution is left as copied
blank_solution_skipped(solution, task) == [exc |-> FALSE, solution |-> solution]

\* test_file.read_text raises before anything is written when the file is
\* not UTF-8; otherwise the stub replaces the solution
blank_solution(solution, task) ==
    IF task.tests = "undecodable" THEN [exc |-> TRUE, solution |-> solution]
    ELSE [exc |-> FALSE, solution |-> "stub"]

\* the outcomes of run_agent_on_task(cmd_tmpl, ws_task, orig_task, run_root):
\* it raises or returns, executed is whether the agent command ran, wrote
\* and code what the command wrote and its exit code, solution the content
\* of the workspace src/solution.py afterwards
run_agent_on_task(kind, task, solution) ==
    LET raises(sol) == [exc |-> TRUE, executed |-> FALSE, wrote |-> "nothing",
                        code |-> None, solution |-> sol]
        blank == blank_solution(solution, task)
    IN  IF find_test_file(task) = "raise" THEN {raises(solution)}
        ELSE IF blank.exc THEN {raises(blank.solution)}
        ELSE IF kind = "bad_template" THEN {raises(blank.solution)}
        ELSE IF kind = "missing" THEN {raises(blank.solution)}
        ELSE {[exc |-> FALSE, executed |-> TRUE, wrote |-> r.writes,
               code |-> r.code,
               solution |-> IF r.writes = "nothing" THEN blank.solution
                            ELSE r.writes] : r \in AgentRuns(kind)}

\* the options runner/vibebench_runner.py declares
RunnerOptions == {"--tasks", "--out"}

\* the options score_workspace passes to it
ScoreOptions == {"--tasks", "--out", "--csv"}

\* python vibebench_runner.py <options>: argparse exits with status 2 on an
\* option that is not declared; otherwise main runs, and ends with a
\* traceback (status 1) or writes the file --out names.  The base runner
\* writes no CSV.
runner_main(options, behaviour) ==
    IF ~(options \subseteq RunnerOptions)
    THEN [code |-> 2, json |-> FALSE, csv |-> FALSE]
    ELSE IF behaviour = "raises" THEN [code |-> 1, json |-> FALSE, csv |-> FALSE]
    ELSE [code |-> 0, json |-> TRUE, csv |-> FALSE]

\* compare_agents(names): load_csv opens every agent's results.csv, and
\* set.intersection() of no sets raises TypeError
compare_agents(names, files) ==
    IF \E a \in 1..Len(names) : files[a].csv = "absent" THEN "raise"
    ELSE IF names = <<>> THEN "raise"
    ELSE "ok"

\* .agent_runs is empty, or an earlier run left a workspace and result files
\* for every agent
InitAgents ==
    /\ NormIdle /\ EvalIdle /\ DiscIdle /\ MainIdle /\ TwiceIdle /\ OpenAIIdle
    /\ agents \in SeqsUpTo(AgentKinds, MaxAgents)
    /\ sources \in SeqsUpTo(TaskDirs, MaxAgentTasks)
    /\ \E earlier \in BOOLEAN :
          /\ ws = [a \in 1..Len(agents) |->
                      IF earlier THEN [t \in 1..Len(sources) |-> "code"] ELSE <<>>]
          /\ run_files = [a \in 1..Len(agents) |->
                            [code |-> None,
                             json |-> IF earlier THEN "stale" ELSE "absent",
                             csv |-> IF earlier THEN "stale" ELSE "absent"]]
    /\ acalls = <<>> /\ ai = 1 /\ ti = 0
    /\ apc = IF agents = <<>> THEN "compare" ELSE "prepare"

\* lines 220-222
PrepareWorkspace ==
    /\ apc = "prepare"
    /\ ws' = [ws EXCEPT ![ai] = prepare_workspace(sources)]
    /\ ti' = 1
    /\ apc' = "tasks"
    /\ UNCHANGED <<agents, sources, run_files, acalls, ai, normVars, evalVars,
                   discVars, mainVars, twiceVars, openaiVars>>

\* lines 223-225, one iteration
RunAgentOnTask ==
    /\ apc = "tasks" /\ ti <= Len(agents_discover_tasks(sources))
    /\ LET t == agents_discover_tasks(sources)[ti]
       IN  \E o \in run_agent_on_task(agents[ai], sources[t], ws[ai][t]) :
              /\ ws' = [ws EXCEPT ![ai][t] = o.solution]
              /\ acalls' = Append(acalls,
                              [agent |-> ai, task |-> t, before |-> ws[ai][t],
                               exc |-> o.exc, executed |-> o.executed,
                               wrote |-> o.wrote, code |-> o.code])
              /\ IF o.exc THEN apc' = "raised" /\ UNCHANGED ti
                 ELSE ti' = ti + 1 /\ UNCHANGED apc
    /\ UNCHANGED <<agents, sources, run_files, ai, normVars, evalVars,
                   discVars, mainVars, twiceVars, openaiVars>>

\* line 226, and the step to the next agent or to compare_agents
ScoreWorkspace ==
    /\ apc = "tasks" /\ ti > Len(agents_discover_tasks(sources))
    /\ \E behaviour \in {"ok", "raises"} :
          LET r == runner_main(ScoreOptions, behaviour)
          IN  /\ run_files' = [run_files EXCEPT ![ai] =
                                 [code |-> r.code,
                                  json |-> IF r.json THEN "fresh" ELSE @.json,
                                  csv |-> IF r.csv THEN "fresh" ELSE @.csv]]
              /\ IF r.code # 0 THEN apc' = "exit" /\ UNCHANGED ai
                 ELSE IF ai < Len(agents) THEN apc' = "prepare" /\ ai' = ai + 1
                 ELSE apc' = "compare" /\ UNCHANGED ai
    /\ UNCHANGED <<agents, sources, ws, acalls, ti, normVars, evalVars,
                   discVars, mainVars, twiceVars, openaiVars>>

\* line 228
CompareAgents ==
    /\ apc = "compare"
    /\ apc' = IF compare_agents(agents, run_files) = "raise" THEN "raised"
              ELSE "done"
    /\ UNCHANGED <<agents, sources, ws, run_files, acalls, ai, ti, normVars,
                   evalVars, discVars, mainVars, twiceVars, openaiVars>>

NextAgents ==
    \/ PrepareWorkspace
    \/ RunAgentOnTask
    \/ ScoreWorkspace
    \/ CompareAgents

SpecAgents == InitAgents /\ [][NextAgents]_vars

----------------------------------------------------------------------------
(* Properties of run_agents (SpecAgents) *)

\* C26: whenever score_workspace has invoked the runner for an agent, the
\* runner accepted the options it was given (it did not end with argparse's
\* usage error), and a runner that ended normally left that agent's
\* results.json and results.csv.
C26_RunnerAcceptsOptions ==
    \A a \in 1..Len(agents) :
        run_files[a].code # None =>
            /\ run_files[a].code # 2
            /\ run_files[a].code = 0 =>
                  run_files[a].json = "fresh" /\ run_files[a].csv = "fresh"

\* the call got as far as the agent command: a test file was found and read
ReachedCommand(c) ==
    /\ find_test_file(sources[c.task]) = "ok"
    /\ ~blank_solution(c.before, sources[c.task]).exc

\* C29: after a run_agent_on_task call that got as far as the agent command
\* (executed or not startable), the workspace solution is the reference
\* implementation only if the command wrote it, and it is the stub whenever
\* the command wrote nothing, whatever its exit code.
C29_StubBeforeAgent ==
    \A i \in 1..Len(acalls) :
        LET c == acalls[i]
            after == ws[c.agent][c.task]
        IN  ReachedCommand(c) =>
                /\ after = "reference" => (c.executed /\ c.wrote = "reference")
                /\ c.wrote = "nothing" => after = "stub"

\* the copied reference was in place before the call, the command failed
\* without writing, and the stub is what the call left
C29_Witness ==
    \E i \in 1..Len(acalls) :
        /\ acalls[i].before = "reference" /\ acalls[i].executed
        /\ acalls[i].code = 1 /\ acalls[i].wrote = "nothing"
        /\ ws[acalls[i].agent][acalls[i].task] = "stub"

----------------------------------------------------------------------------
(* SpecOpenAI: scripts/agents/openai_agent.py, one invocation of main() *)

ZeroLedger == [kind |-> "dict", input_tokens |-> 0, output_tokens |-> 0, requests |-> 0]

\* cost_ledger.json before the invocation: missing, not JSON, or a ledger
LedgerFiles ==
    {NoLedger, [kind |-> "corrupt"]}
    \cup {[kind |-> "dict", input_tokens |-> i, output_tokens |-> o, requests |-> r] :
             i \in {0, MaxTokens}, o \in {0, MaxTokens}, r \in {0, 1}}

load_ledger(file) == IF file.kind = "dict" THEN file ELSE ZeroLedger

over_budget(l, budget_tokens) == l.input_tokens + l.output_tokens >= budget_tokens

\* `cache_path and cache_path.exists() and not args.no - cache`: the third
\* operand reads args.no, which argparse never sets (the flag is stored as
\* no_cache), so evaluating it raises AttributeError
cache_hit(env, cache) ==
    IF ~env.cache THEN "no"
    ELSE IF cache = "absent" THEN "no"
    ELSE "raise"

\* client.responses.create(...): it raises (time-out, API error), or returns
\* a response with or without a usage record and with or without text
NoUsage == [present |-> FALSE, input_tokens |-> 0, output_tokens |-> 0]

ApiResponses ==
    {[kind |-> "raises", usage |-> NoUsage, text |-> FALSE]}
    \cup {[kind |-> "response", usage |-> u, text |-> t] :
             u \in {NoUsage} \cup
                   {[present |-> TRUE, input_tokens |-> i, output_tokens |-> o] :
                       i \in {0, MaxTokens}, o \in {0, MaxTokens}},
             t \in BOOLEAN}

\* the ledger after generate() received resp: one more request, the usage
\* added when there is one
generate(l, resp) ==
    [l EXCEPT !.requests = @ + 1,
              !.input_tokens = @ + (IF resp.usage.present THEN resp.usage.input_tokens ELSE 0),
              !.output_tokens = @ + (IF resp.usage.present THEN resp.usage.output_tokens ELSE 0)]

\* the request as the model keeps it: whether the ledger was over the budget
\* when it was sent, and whether create returned
Request(l, resp) ==
    [over |-> over_budget(l, oenv.budget_tokens), returned |-> resp.kind = "response"]

InitOpenAI ==
    /\ NormIdle /\ EvalIdle /\ DiscIdle /\ MainIdle /\ TwiceIdle /\ AgentsIdle
    /\ ledger_file \in LedgerFiles
    /\ oenv \in [budget_tokens : 0..MaxBudget, cache : BOOLEAN,
                 repair_once : BOOLEAN, ledger0 : {ledger_file}]
    /\ cache_file \in {"absent", "cached"}
    /\ cache_file = "cached" => oenv.cache
    /\ ledger = NoLedger /\ issued = <<>> /\ dst = "untouched" /\ opc = "start"

\* lines 345-370: the ledger is loaded and saved, and an invocation that
\* starts over budget ends here
OpenAIStart ==
    /\ opc = "start"
    /\ ledger' = load_ledger(ledger_file)
    /\ ledger_file' = ledger'
    /\ IF over_budget(ledger', oenv.budget_tokens)
       THEN IF cache_hit(oenv, cache_file) = "raise"
            THEN opc' = "raised" /\ UNCHANGED dst
            ELSE dst' = "stub" /\ opc' = "done"
       ELSE opc' = "attempt" /\ UNCHANGED dst
    /\ UNCHANGED <<oenv, issued, cache_file, normVars, evalVars, discVars,
                   mainVars, twiceVars, agentVars>>

\* lines 372-425: the first attempt
OpenAIAttempt ==
    /\ opc = "attempt"
    /\ IF cache_hit(oenv, cache_file) = "raise"
       THEN /\ opc' = "raised"
            /\ UNCHANGED <<ledger, ledger_file, issued, dst, cache_file>>
       ELSE \E resp \in ApiResponses :
              /\ issued' = Append(issued, Request(ledger, resp))
              /\ IF resp.kind = "raises"
                 THEN /\ opc' = "raised"
                      /\ UNCHANGED <<ledger, ledger_file, dst, cache_file>>
                 ELSE /\ ledger' = generate(ledger, resp)
                      /\ ledger_file' = ledger'
                      /\ dst' = IF resp.text THEN "code" ELSE "stub"
                      /\ cache_file' = IF oenv.cache THEN dst' ELSE cache_file
                      /\ opc' = "quick_test"
    /\ UNCHANGED <<oenv, normVars, evalVars, discVars, mainVars, twiceVars,
                   agentVars>>

\* lines 428-447: the quick test and the one repair attempt
OpenAIRepair ==
    /\ opc = "quick_test"
    /\ \E passed \in BOOLEAN :
          IF passed \/ ~oenv.repair_once \/ over_budget(ledger, oenv.budget_tokens)
          THEN /\ opc' = "done"
               /\ UNCHANGED <<ledger, ledger_file, issued, dst, cache_file>>
          ELSE \E resp \in ApiResponses :
                 /\ issued' = Append(issued, Request(ledger, resp))
                 /\ IF resp.kind = "raises"
                    THEN /\ opc' = "raised"
                         /\ UNCHANGED <<ledger, ledger_file, dst, cache_file>>
                    ELSE /\ ledger' = generate(ledger, resp)
                         /\ ledger_file' = ledger'
                         /\ dst' = IF resp.text THEN "code" ELSE dst
                         /\ cache_file' = IF resp.text /\ oenv.cache THEN "code"
                                          ELSE cache_file
                         /\ opc' = "done"
    /\ UNCHANGED <<oenv, normVars, evalVars, discVars, mainVars, twiceVars,
                   agentVars>>

NextOpenAI ==
    \/ OpenAIStart
    \/ OpenAIAttempt
    \/ OpenAIRepair

SpecOpenAI == InitOpenAI /\ [][NextOpenAI]_vars

----------------------------------------------------------------------------
(* Properties of the OpenAI agent (SpecOpenAI) *)

Ended == opc \in {"done", "raised"}

\* C30: no request is sent while the ledger is at or over the budget, and an
\* invocation that starts over budget writes a stub or the cached solution;
\* at most two requests are sent; the persisted request count has grown by
\* one for every request sent, and the persisted token counts have not
\* dropped below those the invocation found.
C30_BudgetAndLedger ==
    /\ \A i \in 1..Len(issued) : ~issued[i].over
    /\ (Ended /\ over_budget(load_ledger(oenv.ledger0), oenv.budget_tokens)) =>
           /\ issued = <<>>
           /\ dst \in {"stub", "cached"}
    /\ Len(issued) <= 2
    /\ opc # "start" =>
           /\ ledger_file.requests = load_ledger(oenv.ledger0).requests + Len(issued)
           /\ ledger_file.input_tokens >= load_ledger(oenv.ledger0).input_tokens
           /\ ledger_file.output_tokens >= load_ledger(oenv.ledger0).output_tokens

=============================================================================
